---- MODULE Spec2Model ----
(***************************************************************************)
(* Model of torch/_dynamo/variables/dicts.py: the symbolic dictionary and  *)
(* set variables (ConstDictVariable, DefaultDictVariable, SetVariable),    *)
(* the hashable key wrapper, and the trace state they substitute into.     *)
(*                                                                         *)
(* Abstract values (VariableTrackers) are records.  Instances of the       *)
(* collection variables live in `heap`, addressed by their position, so    *)
(* that an instance captured before a substitution can still be observed.  *)
(***************************************************************************)
EXTENDS Integers, Sequences, FiniteSets, TLC

VARIABLES heap, bindings, last, classified, sys_modules,
          inputs, pc, protected_branches, delete, visited

\* the state of .github/scripts/delete_old_branches.py
branchVars == <<inputs, pc, protected_branches, delete, visited>>

vars == <<heap, bindings, last, classified, sys_modules, branchVars>>

\* delete_branches is not running
NoDeletion ==
    /\ inputs = [branches |-> <<>>, pr_infos |-> <<>>,
                 res |-> [hasNextPage |-> FALSE, nodes |-> <<>>], now |-> 0]
    /\ pc = "idle"
    /\ protected_branches = <<>>
    /\ delete = <<>>
    /\ visited = 0

(***************************************************************************)
(* Bounds.                                                                 *)
(***************************************************************************)
\* Instances the heap may hold: the two of Init plus one per substitution.
MaxInst == 4
\* Longest tuple among the values the hashability predicates are applied to.
MaxTupleLen == 2

(***************************************************************************)
(* Abstract values.  kind is the VariableTracker subclass; for a constant  *)
(* ty/v are the python type and value of the literal; for a tensor v is    *)
(* the identity of node.meta["example_value"] (0: there is none); for a    *)
(* tuple els are the element trackers.                                     *)
(***************************************************************************)
ConstantVariable(ty, v, src, g) ==
    [kind |-> "const", ty |-> ty, v |-> v, els |-> <<>>, source |-> src, guards |-> g]

TensorVariable(fake, src, g) ==
    [kind |-> "tensor", ty |-> "Tensor", v |-> fake, els |-> <<>>, source |-> src, guards |-> g]

TupleVariable(els, g) ==
    [kind |-> "tuple", ty |-> "tuple", v |-> 0, els |-> els, source |-> "", guards |-> g]

ListVariable(els, g) ==
    [kind |-> "list", ty |-> "list", v |-> 0, els |-> els, source |-> "", guards |-> g]

NoneVariable == ConstantVariable("NoneType", 0, "", {})

\* The other kinds is_hashable names: an enum member, a builtin callable and
\* a symbolic number (which the key wrapper specialises to a python number).
EnumVariable(member) ==
    [kind |-> "enum", ty |-> "Enum", v |-> member, els |-> <<>>, source |-> "", guards |-> {}]

BuiltinVariable(fn) ==
    [kind |-> "builtin", ty |-> "builtin", v |-> fn, els |-> <<>>, source |-> "", guards |-> {}]

SymNodeVariable(n) ==
    [kind |-> "symnode", ty |-> "int", v |-> n, els |-> <<>>, source |-> "", guards |-> {}]

Guard(src, check, arg) == [src |-> src, check |-> check, arg |-> arg]

\* VariableTracker.propagate: the union of the guards of the trackers given.
propagate(vts) == UNION {vt.guards : vt \in vts}

\* VariableTracker.add_guards / add_options: a copy of the tracker with the
\* guards added; the tracker it is called on is left as it was.
add_guards(vt, g) == [vt EXCEPT !.guards = vt.guards \cup g]

Range(s) == {s[i] : i \in DOMAIN s}

(***************************************************************************)
(* is_hashable                                                             *)
(***************************************************************************)
RECURSIVE is_hashable(_)
is_hashable(x) ==
    IF x.kind = "tensor" THEN x.v # 0
    ELSE IF x.kind = "tuple" THEN \A i \in DOMAIN x.els : is_hashable(x.els[i])
    ELSE x.kind \in {"builtin", "symnode", "const", "enum"}

(***************************************************************************)
(* is_hashable_python_var, over raw runtime values: records [ty, v, els] of *)
(* the python type, the value and, for a tuple or list, the elements.      *)
(***************************************************************************)
\* the runtime value an abstract value stands for
RECURSIVE python_value(_)
python_value(x) ==
    IF x.kind = "tensor" THEN [ty |-> "Tensor", v |-> 0, els |-> <<>>]
    ELSE IF x.kind \in {"tuple", "list"}
    THEN [ty |-> x.ty, v |-> 0, els |-> [i \in DOMAIN x.els |-> python_value(x.els[i])]]
    ELSE [ty |-> x.ty, v |-> x.v, els |-> <<>>]

\* ConstantVariable.is_literal
is_literal(x) == x.ty \in {"int", "bool", "float", "str", "NoneType"}

is_builtin_callable(x) == x.ty = "builtin"

RECURSIVE is_hashable_python_var(_)
is_hashable_python_var(x) ==
    \/ is_literal(x)
    \/ x.ty \in {"Tensor", "Enum"}
    \/ is_builtin_callable(x)
    \/ (x.ty = "tuple" /\ \A i \in DOMAIN x.els : is_hashable_python_var(x.els[i]))

(***************************************************************************)
(* _HashableTracker.  An underlying value is a record [ty, v, els]: the    *)
(* python type of the value, its identity (fake tensor) or value (literal) *)
(* and, for a tuple, the underlying values of its elements.                *)
(***************************************************************************)
RECURSIVE underlying_value(_)
underlying_value(vt) ==
    IF vt.kind = "tensor" THEN [ty |-> "FakeTensor", v |-> vt.v, els |-> <<>>]
    ELSE IF vt.kind = "tuple"
    THEN [ty |-> "tuple", v |-> 0,
          els |-> [i \in DOMAIN vt.els |-> underlying_value(vt.els[i])]]
    ELSE [ty |-> vt.ty, v |-> vt.v, els |-> <<>>]

\* python's hash(): equal for int and bool of the same value (hash(1) = hash(True)),
\* by identity for a fake tensor, from the elements' hashes for a tuple.
RECURSIVE py_hash(_)
py_hash(u) ==
    IF u.ty = "tuple"
    THEN [cls |-> "tuple", v |-> 0, els |-> [i \in DOMAIN u.els |-> py_hash(u.els[i])]]
    ELSE IF u.ty \in {"int", "bool"} THEN [cls |-> "num", v |-> u.v, els |-> <<>>]
    ELSE [cls |-> u.ty, v |-> u.v, els |-> <<>>]

Hashable_hash(vt) == py_hash(underlying_value(vt))

\* _eq_impl: "T", "F", or "NameError".  The tuple branch calls the bare name
\* _eq_impl from inside a static method of a nested class; no such global
\* exists, so evaluating the generator's first element raises NameError.
\* `len(a) == len(b) and all(...)` short-circuits on a length mismatch, and
\* all() of no elements is True.
eq_impl(a, b) ==
    IF a.ty # b.ty THEN "F"
    ELSE IF a.ty = "tuple"
    THEN IF Len(a.els) # Len(b.els) THEN "F"
         ELSE IF Len(a.els) = 0 THEN "T"
         ELSE "NameError"
    ELSE IF a.ty = "FakeTensor" THEN (IF a.v = b.v THEN "T" ELSE "F")
    ELSE (IF a.v = b.v THEN "T" ELSE "F")

Hashable_eq(x, y) == eq_impl(underlying_value(x), underlying_value(y))

(***************************************************************************)
(* The python dict behind ConstDictVariable.items, as the sequence of its  *)
(* entries [k, v] in insertion order (k is the wrapped tracker, wrapper.vt)*)
(* A lookup with a new wrapper compares it, by __eq__, with every entry of *)
(* the same hash.                                                          *)
(***************************************************************************)
\* the comparison of entry i with k in a lookup, given r = entry.__eq__(k)
RECURSIVE dict_find_from(_, _, _)
dict_find_eq(items, k, i, r) ==
    IF r = "T" THEN i
    ELSE IF r = "F" THEN dict_find_from(items, k, i + 1)
    ELSE -1

dict_find_from(items, k, i) ==
    IF i > Len(items) THEN 0
    ELSE IF Hashable_hash(items[i].k) # Hashable_hash(k) THEN dict_find_from(items, k, i + 1)
    ELSE dict_find_eq(items, k, i, Hashable_eq(items[i].k, k))

\* position of the entry equal to k; 0: no such entry; -1: __eq__ raised NameError
dict_find(items, k) == dict_find_from(items, k, 1)

\* d[k] = v where an updated key is deleted and inserted again at the end
dict_setitem_at_moving(items, k, v, i) ==
    IF i = -1 THEN [err |-> "NameError", items |-> items]
    ELSE IF i = 0 THEN [err |-> "", items |-> Append(items, [k |-> k, v |-> v])]
    ELSE [err |-> "",
          items |-> Append([j \in 1..(Len(items) - 1) |->
                               IF j < i THEN items[j] ELSE items[j + 1]],
                           [k |-> items[i].k, v |-> v])]

\* d[k] = v, given the position i a lookup of k found: the value of an equal
\* entry is replaced where it stands (the entry keeps its own key object), a
\* new entry goes to the end.
dict_setitem_at(items, k, v, i) ==
    IF i = -1 THEN [err |-> "NameError", items |-> items]
    ELSE IF i = 0 THEN [err |-> "", items |-> Append(items, [k |-> k, v |-> v])]
    ELSE [err |-> "", items |-> [items EXCEPT ![i].v = v]]

dict_setitem(items, k, v) == dict_setitem_at(items, k, v, dict_find(items, k))

\* d.update(pairs) / a dict comprehension: the entries are set one after
\* another; r is the outcome of setting entry i.
RECURSIVE dict_update_from(_, _, _)
dict_update_next(r, pairs, i) ==
    IF r.err # "" THEN r ELSE dict_update_from(r.items, pairs, i + 1)

dict_update_from(items, pairs, i) ==
    IF i > Len(pairs) THEN [err |-> "", items |-> items]
    ELSE dict_update_next(dict_setitem(items, pairs[i].k, pairs[i].v), pairs, i)

dict_update(items, pairs) == dict_update_from(items, pairs, 1)

RemoveAt(s, i) == [j \in 1..(Len(s) - 1) |-> IF j < i THEN s[j] ELSE s[j + 1]]

\* d.pop(k) without a default, given the position i a lookup of k found
dict_pop_at(items, i) ==
    IF i = -1 THEN [err |-> "NameError", items |-> items, value |-> NoneVariable]
    ELSE IF i = 0 THEN [err |-> "KeyError", items |-> items, value |-> NoneVariable]
    ELSE [err |-> "", items |-> RemoveAt(items, i), value |-> items[i].v]

dict_pop(items, k) == dict_pop_at(items, dict_find(items, k))

(***************************************************************************)
(* Instances of the collection variables.                                  *)
(***************************************************************************)
Instance(cls, items, user_cls, mutable_local, default_factory, guards) ==
    [cls |-> cls, items |-> items, user_cls |-> user_cls,
     mutable_local |-> mutable_local, default_factory |-> default_factory,
     guards |-> guards]

NoInstance == Instance("None", <<>>, "None", FALSE, "None", {})

\* The outcome of one call: how it ended ("ok" or the exception raised), the
\* value returned, the instance handed to tx.replace_all (none or one), the
\* instance the call was made on as the call leaves it, and the number of
\* times the default factory was invoked.
Result(outcome, ret, sub, self, calls) ==
    [outcome |-> outcome, ret |-> ret, sub |-> sub, self |-> self, calls |-> calls]

Raise(exc, self) == Result(exc, NoneVariable, <<>>, self, 0)

ItemGuards(items) ==
    UNION {items[i].k.guards \cup items[i].v.guards : i \in DOMAIN items}

\* ConstDictVariable.__init__ / DefaultDictVariable.__init__: the keys are
\* wrapped (which asserts is_hashable) and the items put into a dict one after
\* another (r); the guards of the keys and values are added to the guards
\* passed in.
ConstDictVariable_init_with(r, cls, items, user_cls, mutable_local, default_factory, guards) ==
    [err |-> IF \E i \in DOMAIN items : ~is_hashable(items[i].k)
             THEN "AssertionError" ELSE r.err,
     inst |-> Instance(cls, r.items, user_cls, mutable_local, default_factory,
                       guards \cup ItemGuards(r.items))]

ConstDictVariable_init(cls, items, user_cls, mutable_local, default_factory, guards) ==
    ConstDictVariable_init_with(dict_update(<<>>, items), cls, items, user_cls,
                                mutable_local, default_factory, guards)

\* modifed: a copy of self with different items (clone re-runs __init__ with
\* the fields of self, the items and the options replaced).
modifed(self, items, options) ==
    ConstDictVariable_init(self.cls, items, self.user_cls, self.mutable_local,
                           self.default_factory, options).inst

\* VariableTracker.call_method for a method the subclass does not serve.
super_call_method(self, name, args) == Raise("unimplemented", self)

\* reconstruct: the instructions emitted, in order.  codegen(vt) is a LOAD
\* of the tracker.
Instr(op, vt, arg) == [op |-> op, vt |-> vt, arg |-> arg]

RECURSIVE load_items(_, _)
load_items(items, i) ==
    IF i > Len(items) THEN <<>>
    ELSE <<Instr("LOAD", items[i].k, 0), Instr("LOAD", items[i].v, 0)>>
         \o load_items(items, i + 1)

reconstruct(self) ==
    (IF self.user_cls = "OrderedDict"
     THEN <<Instr("LOAD_MODULE_collections", NoneVariable, 0),
            Instr("LOAD_ATTR_OrderedDict", NoneVariable, 0)>>
     ELSE <<>>)
    \o load_items(self.items, 1)
    \o <<Instr("BUILD_MAP", NoneVariable, Len(self.items))>>
    \o (IF self.user_cls = "OrderedDict"
        THEN <<Instr("CALL_FUNCTION", NoneVariable, 1)>>
        ELSE <<>>)

\* getitem_const, given the position i the lookup of arg found
getitem_at(self, arg, i) ==
    IF i = -1 THEN Raise("NameError", self)
    ELSE IF i = 0 THEN Raise("KeyError", self)
    ELSE Result("ok", add_guards(self.items[i].v, self.guards \cup arg.guards),
                <<>>, self, 0)

getitem_const(self, arg) ==
    IF ~is_hashable(arg) THEN Raise("AssertionError", self)
    ELSE getitem_at(self, arg, dict_find(self.items, arg))

(***************************************************************************)
(* ConstDictVariable.call_method.  args is the sequence of positional      *)
(* arguments; the branches are tried in the order of the source, and a     *)
(* condition that raises (a lookup whose __eq__ raises) ends the call.     *)
(***************************************************************************)
\* the change made to self.items itself instead of to a copy
substitute_modifed_in_place(self, r, ret, options, calls) ==
    IF r.err # "" THEN Raise(r.err, self)
    ELSE Result("ok", ret, <<modifed(self, r.items, options)>>,
                [self EXCEPT !.items = r.items], calls)

\* tx.replace_all(self, self.modifed(newval, **options)) once newval is made:
\* r is the outcome of the change to the copy of self.items
substitute_modifed(self, r, ret, options, calls) ==
    IF r.err # "" THEN Raise(r.err, self)
    ELSE Result("ok", ret, <<modifed(self, r.items, options)>>, self, calls)

\* name == "__setitem__" and arg_hashable and self.mutable_local
ConstDict_setitem(self, args, options) ==
    substitute_modifed(self, dict_setitem(self.items, args[1], args[2]),
                       NoneVariable, options, 0)

\* a pop that asks for the substitution before newval.pop has found the key
ConstDict_pop_substituting_first(self, r, options) ==
    Result(IF r.err # "" THEN r.err ELSE "ok", add_guards(r.value, options),
           <<modifed(self, r.items, options)>>, self, 0)

\* name == "pop" and arg_hashable and self.mutable_local
ConstDict_pop_with(self, r, options) ==
    substitute_modifed(self, r, add_guards(r.value, options), options, 0)

ConstDict_pop(self, args, options) ==
    ConstDict_pop_with(self, dict_pop(self.items, args[1]), options)

\* name == "update" and args and isinstance(args[0], ConstDictVariable)
\* and self.mutable_local
ConstDict_update(self, args, options) ==
    substitute_modifed(self, dict_update(self.items, args[1].items),
                       NoneVariable, options, 0)

IsDictInstance(x) == "cls" \in DOMAIN x /\ x.cls \in {"ConstDictVariable", "DefaultDictVariable"}

ArgGuards(args) ==
    UNION {args[i].guards : i \in DOMAIN args}

\* arg_hashable = args and is_hashable(args[0])
arg_hashable(args) == Len(args) > 0 /\ ~IsDictInstance(args[1]) /\ is_hashable(args[1])

\* the branches of call_method, given options, arg_hashable (hashable) and
\* the outcome (found) of looking Hashable(args[0]) up in self.items where
\* a branch condition does so.  keys(), whose result is a SetVariable and not
\* a tracker of the kinds above, is left out: no step calls it.
ConstDict_branches(self, name, args, options, hashable, found) ==
    IF name = "__getitem__" THEN getitem_const(self, args[1])
    ELSE IF name = "items"
    THEN Result("ok",
                TupleVariable([i \in DOMAIN self.items |->
                                  TupleVariable(<<self.items[i].k, self.items[i].v>>, options)],
                              options),
                <<>>, self, 0)
    ELSE IF name = "values"
    THEN Result("ok", TupleVariable([i \in DOMAIN self.items |-> self.items[i].v], options),
                <<>>, self, 0)
    ELSE IF name = "__len__"
    THEN Result("ok", ConstantVariable("int", Len(self.items), "", options), <<>>, self, 0)
    ELSE IF name = "__setitem__" /\ hashable /\ self.mutable_local
    THEN ConstDict_setitem(self, args, options)
    ELSE IF name \in {"pop", "get"} /\ hashable /\ found = -1
    THEN Raise("NameError", self)
    ELSE IF name \in {"pop", "get"} /\ hashable /\ found = 0 /\ Len(args) = 2
    THEN Result("ok", add_guards(args[2], options), <<>>, self, 0)
    ELSE IF name = "pop" /\ hashable /\ self.mutable_local
    THEN ConstDict_pop(self, args, options)
    ELSE IF name = "update" /\ Len(args) > 0 /\ IsDictInstance(args[1])
            /\ self.mutable_local
    THEN ConstDict_update(self, args, options)
    ELSE IF name \in {"get", "__getattr__"} /\ hashable /\ found > 0
    THEN Result("ok", add_guards(self.items[found].v, options), <<>>, self, 0)
    ELSE IF name = "__contains__" /\ Len(args) > 0
    THEN IF hashable /\ found = -1 THEN Raise("NameError", self)
         ELSE Result("ok",
                     ConstantVariable("bool", IF hashable /\ found > 0 THEN 1 ELSE 0,
                                      "", options),
                     <<>>, self, 0)
    ELSE super_call_method(self, name, args)

ConstDict_call_method(self, name, args) ==
    ConstDict_branches(self, name, args, self.guards \cup ArgGuards(args),
                       arg_hashable(args),
                       IF arg_hashable(args) THEN dict_find(self.items, args[1]) ELSE 0)

(***************************************************************************)
(* DefaultDictVariable.call_method                                         *)
(***************************************************************************)
\* self.default_factory.call_function(tx, [], {}): the builtin list called
\* with no arguments makes a new empty list.
default_factory_call(factory) == ListVariable(<<>>, {})

\* the miss branch once the factory has produced default_var
DefaultDict_insert(self, k, default_var, options) ==
    substitute_modifed(self, dict_setitem(self.items, k, default_var),
                       default_var, options, 1)

\* name == "__getitem__", given the outcome i of `k in self.items`
DefaultDict_getitem_at(self, args, options, i) ==
    IF i = -1 THEN Raise("NameError", self)
    ELSE IF i > 0 THEN getitem_const(self, args[1])
    ELSE IF self.default_factory = "None" THEN Raise("KeyError", self)
    ELSE DefaultDict_insert(self, args[1], default_factory_call(self.default_factory),
                            options)

DefaultDict_call_method(self, name, args) ==
    IF name = "__getitem__"
    THEN IF ~is_hashable(args[1]) THEN Raise("AssertionError", self)
         ELSE DefaultDict_getitem_at(self, args, self.guards \cup ArgGuards(args),
                                     dict_find(self.items, args[1]))
    ELSE ConstDict_call_method(self, name, args)

(***************************************************************************)
(* SetVariable.  items is the list of element trackers.                    *)
(***************************************************************************)
\* python's == on two underlying values of set elements
py_eq(a, b) ==
    IF a.ty \in {"int", "bool"} /\ b.ty \in {"int", "bool"} THEN a.v = b.v
    ELSE a.ty = b.ty /\ a.v = b.v

\* SetElement(vt, underlying_value)
SetElement(vt, u) == [vt |-> vt, underlying_value |-> u]

SetElement_hash(e) == py_hash(e.underlying_value)

\* SetElement.__eq__: by identity of the underlying value when self wraps a
\* tensor, by value otherwise.
SetElement_eq(self, other) ==
    IF self.vt.kind = "tensor" THEN self.underlying_value = other.underlying_value
    ELSE py_eq(self.underlying_value, other.underlying_value)

\* a membership test that never finds the element
set_contains_never(underlying_items, e) == FALSE

\* element in a python set of SetElements: an entry of the same hash that is
\* equal to it (the entry's __eq__ is the one called).
set_contains(underlying_items, e) ==
    \E x \in underlying_items : SetElement_hash(x) = SetElement_hash(e) /\ SetElement_eq(x, e)

\* _as_set_element; supported is FALSE where the source calls unimplemented.
as_set_element(vt) ==
    IF vt.kind = "tensor"
    THEN [supported |-> vt.v # 0,
          e |-> SetElement(vt, [ty |-> "FakeTensor", v |-> vt.v, els |-> <<>>])]
    ELSE IF vt.kind \in {"const", "methodwrapper"}
    THEN [supported |-> TRUE, e |-> SetElement(vt, [ty |-> vt.ty, v |-> vt.v, els |-> <<>>])]
    ELSE [supported |-> FALSE, e |-> SetElement(vt, [ty |-> vt.ty, v |-> 0, els |-> <<>>])]

\* _underlying_items: the python set of the elements' SetElements.
set_add(underlying, e) == IF set_contains(underlying, e) THEN underlying ELSE underlying \cup {e}

RECURSIVE underlying_items_from(_, _, _)
underlying_items_from(items, i, acc) ==
    IF i > Len(items) THEN acc
    ELSE underlying_items_from(items, i + 1, set_add(acc, as_set_element(items[i]).e))

underlying_items(items) == underlying_items_from(items, 1, {})

\* make_dupe_guard(obj_source, dupe_source): a guard is derived when the
\* origins of the two trackers differ ("" is no source).
make_dupe_guard(obj_source, dupe_source) ==
    IF dupe_source # "" /\ dupe_source # obj_source
    THEN <<Guard(obj_source, "DUPLICATE_INPUT", dupe_source)>>
    ELSE <<>>

\* The else branch of _add for one element already in the set: every SetElement
\* of the local set with the hash of set_element has its vt field rebound to a
\* copy of the tracker carrying the alias guard.
attach_alias_guards(underlying, set_element) ==
    {IF SetElement_hash(set_element) = SetElement_hash(e)
        /\ make_dupe_guard(e.vt.source, set_element.vt.source) # <<>>
     THEN [e EXCEPT !.vt = add_guards(e.vt,
                              Range(make_dupe_guard(e.vt.source, set_element.vt.source)))]
     ELSE e : e \in underlying}

\* _add(item) for the elements to_add[i..]: items is self.items, appended to
\* in place; underlying is the local set of SetElements.
RECURSIVE add_from(_, _, _, _)
add_one(items, underlying, to_add, i, s) ==
    IF ~s.supported
    THEN [err |-> "unimplemented", items |-> items, underlying |-> underlying]
    ELSE IF ~set_contains(underlying, s.e)
    THEN add_from(Append(items, s.e.vt), underlying \cup {s.e}, to_add, i + 1)
    ELSE add_from(items, attach_alias_guards(underlying, s.e), to_add, i + 1)

add_from(items, underlying, to_add, i) ==
    IF i > Len(to_add) THEN [err |-> "", items |-> items, underlying |-> underlying]
    ELSE add_one(items, underlying, to_add, i, as_set_element(to_add[i]))

\* _add: returns self.items (the list of the instance, after the appends)
SetVariable_add(items, to_add) == add_from(items, underlying_items(items), to_add, 1)

\* SetVariable.__init__: self.items = []; self._add(items) gave r
SetVariable_init_with(r, items, regen_guards, mutable_local, guards) ==
    [err |-> r.err,
     inst |-> Instance("SetVariable", r.items, "set", mutable_local, "None",
                       guards \cup (IF regen_guards THEN propagate(Range(items)) ELSE {}))]

SetVariable_init(items, regen_guards, mutable_local, guards) ==
    SetVariable_init_with(SetVariable_add(<<>>, items), items, regen_guards,
                          mutable_local, guards)

\* name == "add" and args and self.mutable_local, once self._add(item) gave r:
\* the list r.items is self.items, which _add appended to, and the new set is
\* built from it.
SetVariable_add_with(self, r, options) ==
    IF r.err # "" THEN Raise(r.err, [self EXCEPT !.items = r.items])
    ELSE Result("ok", NoneVariable,
                <<SetVariable_init(r.items, FALSE, self.mutable_local, options).inst>>,
                [self EXCEPT !.items = r.items], 0)

\* a pop that takes the first element of the list instead of the last
SetVariable_pop_first(self, options) ==
    IF Len(self.items) = 0 THEN Raise("IndexError", self)
    ELSE Result("ok", self.items[1],
                <<SetVariable_init(SubSeq(self.items, 2, Len(self.items)),
                                   FALSE, FALSE, options).inst>>,
                self, 0)

\* name == "pop" and self.mutable_local
SetVariable_pop(self, options) ==
    IF Len(self.items) = 0 THEN Raise("IndexError", self)
    ELSE Result("ok", self.items[Len(self.items)],
                <<SetVariable_init(SubSeq(self.items, 1, Len(self.items) - 1),
                                   FALSE, FALSE, options).inst>>,
                self, 0)

SetVariable_branches(self, name, args, options) ==
    IF name = "add" /\ Len(args) > 0 /\ self.mutable_local
    THEN SetVariable_add_with(self, SetVariable_add(self.items, <<args[1]>>), options)
    ELSE IF name = "pop" /\ self.mutable_local
    THEN SetVariable_pop(self, options)
    ELSE IF name = "__len__"
    THEN Result("ok", ConstantVariable("int", Len(self.items), "", options), <<>>, self, 0)
    ELSE super_call_method(self, name, args)

SetVariable_call_method(self, name, args) ==
    SetVariable_branches(self, name, args, self.guards \cup ArgGuards(args))

(***************************************************************************)
(* The trace state: the symbolic variables (locals and stack) and the      *)
(* instance each is bound to.                                              *)
(***************************************************************************)
Vars == {"x", "y", "z"}

\* tx.replace_all(oldvar, newvar): every variable bound to the old instance
\* is bound to the new one.
replace_all(b, old, new) == [n \in DOMAIN b |-> IF b[n] = old THEN new ELSE b[n]]

call_method(self, name, args) ==
    IF self.cls = "DefaultDictVariable" THEN DefaultDict_call_method(self, name, args)
    ELSE IF self.cls = "ConstDictVariable" THEN ConstDict_call_method(self, name, args)
    ELSE SetVariable_call_method(self, name, args)

(***************************************************************************)
(* The values the calls are made with.                                     *)
(***************************************************************************)
c1 == ConstantVariable("int", 1, "", {})
cT == ConstantVariable("bool", 1, "", {})
c2 == ConstantVariable("int", 2, "", {})
tA == TensorVariable(1, "a", {Guard("a", "TENSOR_MATCH", "")})
tB == TensorVariable(1, "b", {Guard("b", "TENSOR_MATCH", "")})
tU == TensorVariable(0, "u", {})
tup1 == TupleVariable(<<c1>>, {})
tupT == TupleVariable(<<cT>>, {})
lst == ListVariable(<<>>, {})
v1 == ConstantVariable("int", 10, "", {})
v2 == ConstantVariable("int", 20, "", {Guard("v", "CONSTANT_MATCH", "")})

Keys == {c1, cT, tA, tB, tup1, tupT, lst}
Values == {v1, v2}
Elements == {c1, cT, c2, tA, tB, tU, lst}

Entry(k, v) == [k |-> k, v |-> v]

InitElements == {<<>>, <<c1, cT>>, <<tA, c2, tB>>}
UpdateItems == {<<Entry(c2, v2), Entry(c1, v2)>>, <<Entry(tup1, v2)>>}

Dict(cls, user_cls, factory, items, m) ==
    ConstDictVariable_init(cls, items, user_cls, m, factory, {}).inst

L0 == <<>>
L1 == <<Entry(c1, v1)>>
L3 == <<Entry(c1, v1), Entry(tA, v2), Entry(tup1, v1)>>

InitDicts ==
    {Dict("ConstDictVariable", "dict", "None", L0, TRUE),
     Dict("ConstDictVariable", "dict", "None", L3, TRUE),
     Dict("ConstDictVariable", "dict", "None", L3, FALSE),
     Dict("ConstDictVariable", "OrderedDict", "None", L1, TRUE),
     Dict("DefaultDictVariable", "defaultdict", "None", L1, TRUE),
     Dict("DefaultDictVariable", "defaultdict", "list", L0, TRUE),
     Dict("DefaultDictVariable", "defaultdict", "list", L3, FALSE)}

InitSets ==
    {SetVariable_init(items, TRUE, m, {}).inst : items \in InitElements, m \in BOOLEAN}

\* the mappings update() is called with
UpdateArgs == {ConstDictVariable_init("ConstDictVariable", items, "dict", FALSE, "None", {}).inst :
                  items \in UpdateItems}

NoCall ==
    [op |-> "", args |-> <<>>, self |-> 0, outcome |-> "", ret |-> NoneVariable,
     new |-> 0, pre |-> NoInstance, bindings |-> [n \in Vars |-> 0], calls |-> 0]

Init ==
    /\ \E obj \in InitDicts \cup InitSets :
          heap = <<obj, ConstDictVariable_init("ConstDictVariable", <<Entry(c1, v1)>>,
                                               "dict", FALSE, "None", {}).inst>>
    /\ bindings = [n \in Vars |-> IF n = "z" THEN 2 ELSE 1]
    /\ last = NoCall
    /\ classified = <<>>
    /\ NoDeletion
    /\ sys_modules = <<>>

(***************************************************************************)
(* One interpreter step: call_method on the instance bound to x.  A        *)
(* substitution appends the new instance to the heap and rebinds the       *)
(* variables; `last` records the call, the instance it was made on as it   *)
(* was before the call, and the bindings before the call.  A call that     *)
(* raises aborts the trace: no call follows it.                            *)
(***************************************************************************)
Apply(id, name, args, r) ==
    /\ last.outcome \in {"", "ok"}
    /\ r.sub = <<>> \/ Len(heap) < MaxInst
    /\ heap' = IF r.sub = <<>> THEN [heap EXCEPT ![id] = r.self]
               ELSE Append([heap EXCEPT ![id] = r.self], r.sub[1])
    /\ bindings' = IF r.sub = <<>> THEN bindings
                   ELSE replace_all(bindings, id, Len(heap) + 1)
    /\ last' = [op |-> name, args |-> args, self |-> id, outcome |-> r.outcome,
                ret |-> r.ret, new |-> IF r.sub = <<>> THEN 0 ELSE Len(heap) + 1,
                pre |-> heap[id], bindings |-> bindings, calls |-> r.calls]
    /\ UNCHANGED <<classified, sys_modules, branchVars>>

Call(name, args) ==
    Apply(bindings["x"], name, args, call_method(heap[bindings["x"]], name, args))

OnDict == IsDictInstance(heap[bindings["x"]])
OnSet == heap[bindings["x"]].cls = "SetVariable"

GetItem == OnDict /\ \E k \in Keys : Call("__getitem__", <<k>>)
SetItem == OnDict /\ \E k \in Keys, v \in Values : Call("__setitem__", <<k, v>>)
Pop == OnDict /\ \E k \in Keys : Call("pop", <<k>>)
PopDefault == OnDict /\ \E k \in Keys : Call("pop", <<k, v2>>)
Update == OnDict /\ \E other \in UpdateArgs : Call("update", <<other>>)
SetAdd == OnSet /\ \E e \in Elements : Call("add", <<e>>)
SetPop == OnSet /\ Call("pop", <<>>)

Next == GetItem \/ SetItem \/ Pop \/ PopDefault \/ Update \/ SetAdd \/ SetPop

Spec == Init /\ [][Next]_vars

(***************************************************************************)
(* DataClassVariable: a ConstDictVariable whose keys are the names of the  *)
(* fields of a dataclass (user_cls).  A name is the number of a string; a  *)
(* raw python value (not a tracker) is a record of kind "raw".             *)
(***************************************************************************)
RawValue(ty, v) ==
    [kind |-> "raw", ty |-> ty, v |-> v, els |-> <<>>, source |-> "", guards |-> {}]

RawNone == RawValue("NoneType", 0)

\* dataclasses.fields(user_cls) of a record class of four fields, each
\* declared with the default None
fields == [i \in 1..4 |-> [name |-> i, default |-> RawNone]]

\* inspect.signature(user_cls).bind(**kwargs); bound.apply_defaults(): the
\* arguments by field, in the order of the fields; a keyword that names no
\* field makes bind raise TypeError.
bind(kwargs, extra) ==
    [err |-> IF extra THEN "TypeError" ELSE "",
     arguments |-> [i \in DOMAIN fields |->
                       IF kwargs[i] = RawNone THEN fields[i].default ELSE kwargs[i]]]

\* the loop of create over keys[i..]: items is keyed by the trackers made of
\* the names
RECURSIVE create_items(_, _, _)
create_items(arguments, include_none, i) ==
    IF i > Len(fields) THEN [err |-> "", items |-> <<>>]
    ELSE IF arguments[i].kind # "raw"
    THEN [err |-> create_items(arguments, include_none, i + 1).err,
          items |-> <<Entry(ConstantVariable("str", fields[i].name, "", {}), arguments[i])>>
                    \o create_items(arguments, include_none, i + 1).items]
    ELSE IF include_none
    THEN [err |-> IF is_literal(arguments[i])
                  THEN create_items(arguments, include_none, i + 1).err
                  ELSE "AssertionError",
          items |-> <<Entry(ConstantVariable("str", fields[i].name, "", {}),
                            ConstantVariable(arguments[i].ty, arguments[i].v, "", {}))>>
                    \o create_items(arguments, include_none, i + 1).items]
    ELSE IF arguments[i] # RawNone
    THEN [err |-> "AssertionError", items |-> <<>>]
    ELSE create_items(arguments, include_none, i + 1)

\* items[key] on the OrderedDict built by create, whose keys are trackers:
\* the position of the entry whose key equals `key`, 0 if there is none
items_find(items, key) ==
    IF \E i \in DOMAIN items : items[i].k = key
    THEN CHOOSE i \in DOMAIN items : items[i].k = key
    ELSE 0

\* len(items) == 1 and not isinstance(items[keys[0]], TensorVariable), where
\* keys[0] is the name of the first field, a str
create_single_check(items) ==
    IF Len(items) # 1 THEN ""
    ELSE IF items_find(items, RawValue("str", fields[1].name)) = 0 THEN "KeyError"
    ELSE IF items[items_find(items, RawValue("str", fields[1].name))].v.kind # "tensor"
    THEN "unimplemented"
    ELSE ""

\* DataClassVariable.create once the arguments are bound (b) and the items
\* collected (r)
create_with(b, r, include_none, options) ==
    IF b.err # "" THEN [err |-> b.err, inst |-> NoInstance]
    ELSE IF r.err # "" THEN [err |-> r.err, inst |-> NoInstance]
    ELSE IF create_single_check(r.items) # ""
    THEN [err |-> create_single_check(r.items), inst |-> NoInstance]
    ELSE ConstDictVariable_init("DataClassVariable", r.items, "ModelOutput", FALSE,
                                "None", options)

DataClassVariable_create(kwargs, extra, include_none, options) ==
    create_with(bind(kwargs, extra),
                create_items(bind(kwargs, extra).arguments, include_none, 1),
                include_none, options)

\* self.call_method(tx, "__getitem__", [ConstantVariable.create(name)], {}):
\* the argument is a str, so getitem_const serves it
DataClass_getitem(self, key) == getitem_const(self, key)

\* var_getattr(name), given the outcome i of `name in self`
var_getattr_at(self, name, include_none, i) ==
    IF i = -1 THEN Raise("NameError", self)
    ELSE IF i > 0 THEN DataClass_getitem(self, ConstantVariable("str", name, "", {}))
    ELSE IF ~include_none /\ \E f \in DOMAIN fields : fields[f].name = name
    THEN IF ~is_literal((CHOOSE d \in Range(fields) : d.name = name).default)
         THEN Raise("AssertionError", self)
         ELSE Result("ok",
                     ConstantVariable((CHOOSE d \in Range(fields) : d.name = name).default.ty,
                                      (CHOOSE d \in Range(fields) : d.name = name).default.v,
                                      "", self.guards),
                     <<>>, self, 0)
    ELSE super_call_method(self, "var_getattr", <<>>)

var_getattr(self, name, include_none) ==
    var_getattr_at(self, name, include_none,
                   dict_find(self.items, ConstantVariable("str", name, "", {})))

\* the values a field is given: none (the default applies), a tensor, a
\* constant
FieldValues == {RawNone, tA, v1}
\* the names var_getattr is asked for: the fields and a name that is none
AttrNames == 1..5

InitDataClass ==
    /\ heap = <<>>
    /\ bindings = [n \in Vars |-> 0]
    /\ last = NoCall
    /\ classified = <<>>
    /\ NoDeletion
    /\ sys_modules = <<>>

\* the result r of DataClassVariable.create(user_cls, [], kwargs, options)
Created(kwargs, r) ==
    /\ heap' = IF r.err = "" THEN <<r.inst>> ELSE heap
    /\ bindings' = IF r.err = "" THEN [n \in Vars |-> 1] ELSE bindings
    /\ last' = [NoCall EXCEPT !.op = "create", !.args = kwargs,
                              !.outcome = IF r.err = "" THEN "ok" ELSE r.err,
                              !.new = IF r.err = "" THEN 1 ELSE 0]
    /\ UNCHANGED <<classified, sys_modules, branchVars>>

Create ==
    /\ heap = <<>> /\ last.op = ""
    /\ \E kwargs \in [DOMAIN fields -> FieldValues], extra \in BOOLEAN :
          Created(kwargs, DataClassVariable_create(kwargs, extra, FALSE, {}))

\* the result r of heap[1].var_getattr(tx, name)
GotAttr(name, r) ==
    /\ last' = [NoCall EXCEPT !.op = "var_getattr",
                              !.args = <<ConstantVariable("str", name, "", {})>>,
                              !.self = 1, !.outcome = r.outcome, !.ret = r.ret,
                              !.pre = heap[1]]
    /\ UNCHANGED <<heap, bindings, classified, sys_modules, branchVars>>

VarGetattr ==
    /\ Len(heap) = 1 /\ last.outcome = "ok"
    /\ \E name \in AttrNames : GotAttr(name, var_getattr(heap[1], name, FALSE))

NextDataClass == Create \/ VarGetattr

SpecDataClass == InitDataClass /\ [][NextDataClass]_vars

(***************************************************************************)
(* PythonSysModulesVariable: the view of sys.modules.  sys_modules is the  *)
(* dict itself, the sequence of its entries [k, v] in insertion order: k   *)
(* the name, v the identity of the module object.                          *)
(***************************************************************************)
ModuleNames == <<"os", "torch", "numpy">>
Modules == {1, 2}

\* VariableBuilder(tx, source)(module): the tracker of a module object
PythonModuleVariable(module, src, g) ==
    [kind |-> "module", ty |-> "module", v |-> module, els |-> <<>>, source |-> src,
     guards |-> g]

GetItemSource(base, index) == base \o "[" \o index \o "]"

PythonSysModulesVariable(src, g) ==
    [cls |-> "PythonSysModulesVariable", source |-> src, guards |-> g]

\* key.as_python_constant(): the str a constant key stands for
as_python_constant(key) == ModuleNames[key.v]

\* position of the entry of name k in the registry, 0 if there is none
modules_find(modules, k) ==
    IF \E i \in DOMAIN modules : modules[i].k = k
    THEN CHOOSE i \in DOMAIN modules : modules[i].k = k
    ELSE 0

\* self.make_guard(functools.partial(GuardBuilder.DICT_CONTAINS, key=k, invert=...))
DICT_CONTAINS(src, key, invert) ==
    Guard(src, IF invert THEN "not DICT_CONTAINS" ELSE "DICT_CONTAINS", key)

\* a helper whose guard has the polarity the wrong way round
contains_helper_inverted(modules, self, k) ==
    [k |-> k, has_key |-> modules_find(modules, k) > 0,
     guards |-> self.guards
                \cup {DICT_CONTAINS(self.source, k, modules_find(modules, k) > 0)}]

\* _contains_helper, given k = key.as_python_constant()
contains_helper(modules, self, k) ==
    [k |-> k, has_key |-> modules_find(modules, k) > 0,
     guards |-> self.guards
                \cup {DICT_CONTAINS(self.source, k, ~(modules_find(modules, k) > 0))}]

\* VariableBuilder(tx, GetItemSource(self.source, k))(sys.modules[k]).add_guards(guards)
build_module(modules, self, h) ==
    IF ~h.has_key THEN Raise("KeyError", self)
    ELSE Result("ok",
                PythonModuleVariable(modules[modules_find(modules, h.k)].v,
                                     GetItemSource(self.source, h.k), h.guards),
                <<>>, self, 0)

call_contains_with(self, h) ==
    Result("ok", ConstantVariable("bool", IF h.has_key THEN 1 ELSE 0, "", h.guards),
           <<>>, self, 0)

call_get_with(modules, self, args, h) ==
    IF h.has_key THEN build_module(modules, self, h)
    ELSE IF Len(args) = 2 THEN Result("ok", add_guards(args[2], h.guards), <<>>, self, 0)
    ELSE Result("ok", ConstantVariable("NoneType", 0, "", h.guards), <<>>, self, 0)

call_getitem_with(modules, self, h) == build_module(modules, self, h)

\* the mapping VariableBuilder makes of sys.modules for the fallback
real_dict(modules, self, options) ==
    ConstDictVariable_init(
        "ConstDictVariable",
        [i \in DOMAIN modules |->
            Entry(ConstantVariable(
                      "str", CHOOSE n \in DOMAIN ModuleNames : ModuleNames[n] = modules[i].k,
                      "", {}),
                  PythonModuleVariable(modules[i].v, GetItemSource(self.source, modules[i].k),
                                       {}))],
        "dict", FALSE, "None", options).inst

\* PythonSysModulesVariable.call_method: a key that is no constant fails in
\* as_python_constant
SysModules_call_method(modules, self, name, args) ==
    IF name \in {"__getitem__", "get", "__contains__"} /\ args[1].kind # "const"
    THEN Raise("NotImplementedError", self)
    ELSE IF name = "__getitem__"
    THEN call_getitem_with(modules, self,
                           contains_helper(modules, self, as_python_constant(args[1])))
    ELSE IF name = "get"
    THEN call_get_with(modules, self, args,
                       contains_helper(modules, self, as_python_constant(args[1])))
    ELSE IF name = "__contains__"
    THEN call_contains_with(self,
                            contains_helper(modules, self, as_python_constant(args[1])))
    ELSE ConstDict_call_method(real_dict(modules, self, self.guards \cup ArgGuards(args)),
                               name, args)

\* the tracker of sys.modules the queries are made on
SysModules == PythonSysModulesVariable("sys.modules", {Guard("sys", "PYMODULE_MATCH", "")})

ModuleKeys == {ConstantVariable("str", n, "", {}) : n \in DOMAIN ModuleNames} \cup {tA}

InitSysModules ==
    /\ heap = <<>>
    /\ bindings = [n \in Vars |-> 0]
    /\ last = NoCall
    /\ classified = <<>>
    /\ NoDeletion
    /\ sys_modules = <<[k |-> "os", v |-> 1]>>

\* the program outside the trace imports (or reloads) a module
ImportModule ==
    /\ \E k \in Range(ModuleNames), m \in Modules :
          sys_modules' = IF modules_find(sys_modules, k) = 0
                         THEN Append(sys_modules, [k |-> k, v |-> m])
                         ELSE [sys_modules EXCEPT ![modules_find(sys_modules, k)].v = m]
    /\ UNCHANGED <<heap, bindings, last, classified, branchVars>>

\* the program outside the trace deletes an entry
UnloadModule ==
    /\ \E i \in DOMAIN sys_modules : sys_modules' = RemoveAt(sys_modules, i)
    /\ UNCHANGED <<heap, bindings, last, classified, branchVars>>

\* the result r of a call of method name on the tracker of sys.modules
Answered(name, args, r) ==
    /\ last' = [NoCall EXCEPT !.op = name, !.args = args, !.outcome = r.outcome,
                              !.ret = r.ret]
    /\ UNCHANGED <<heap, bindings, classified, sys_modules, branchVars>>

Query(name, args) ==
    Answered(name, args, SysModules_call_method(sys_modules, SysModules, name, args))

CallContains == \E key \in ModuleKeys : Query("__contains__", <<key>>)
CallGet == \E key \in ModuleKeys : Query("get", <<key>>)
CallGetDefault == \E key \in ModuleKeys : Query("get", <<key, v2>>)
CallGetItem == \E key \in ModuleKeys : Query("__getitem__", <<key>>)
CallLen == Query("__len__", <<>>)

NextSysModules ==
    \/ ImportModule \/ UnloadModule
    \/ CallContains \/ CallGet \/ CallGetDefault \/ CallGetItem \/ CallLen

SpecSysModules == InitSysModules /\ [][NextSysModules]_vars

(***************************************************************************)
(* .github/scripts/delete_old_branches.py: delete_branches.  inputs is      *)
(* what git and GitHub report: branches (get_branches: the groups in the   *)
(* order of the refs, each [branch, date, sub_branches]), pr_infos (the    *)
(* pull requests get_prs has fetched), res (the branch protection rules)   *)
(* and now.  Times are seconds.                                            *)
(***************************************************************************)
SEC_IN_DAY == 86400
CLOSED_PR_RETENTION == 30 * SEC_IN_DAY
NO_PR_RETENTION == (365 + 180) * SEC_IN_DAY
PR_BODY_MAGIC_STRING == "do-not-delete-branch"

RECURSIVE matching_refs(_, _)
matching_refs(rules, r) ==
    IF r > Len(rules) THEN <<>> ELSE rules[r].names \o matching_refs(rules, r + 1)

\* get_protected_branches: the names the protection rules match, or the
\* exception raised when a page is not the last
get_protected_branches(res) ==
    IF res.hasNextPage
    THEN [err |-> "Too many branch protection rules", branches |-> <<>>]
    ELSE IF \E r \in DOMAIN res.nodes : res.nodes[r].hasNextPage
    THEN [err |-> "Too many branches", branches |-> <<>>]
    ELSE [err |-> "", branches |-> matching_refs(res.nodes, 1)]

\* get_prs, lines 138-149: by headRefName, of several pull requests the one
\* updated last (the first of them when they tie)
prs_by_branch(pr_infos) ==
    [h \in {pr_infos[n].headRefName : n \in DOMAIN pr_infos} |->
        pr_infos[CHOOSE n \in DOMAIN pr_infos :
                    /\ pr_infos[n].headRefName = h
                    /\ \A m \in DOMAIN pr_infos :
                          pr_infos[m].headRefName = h
                          => \/ pr_infos[m].updatedAt < pr_infos[n].updatedAt
                             \/ (pr_infos[m].updatedAt = pr_infos[n].updatedAt /\ n <= m)]]

\* the loop body of delete_branches for one group: TRUE when its sub-branches
\* are appended to delete
selected(group, prs, protected, now) ==
    IF group.branch \in DOMAIN prs
    THEN /\ prs[group.branch].state # "OPEN"
         /\ ~(/\ prs[group.branch].state = "CLOSED"
              /\ now - prs[group.branch].updatedAt < CLOSED_PR_RETENTION)
         /\ prs[group.branch].body # PR_BODY_MAGIC_STRING
    ELSE IF now - group.date < NO_PR_RETENTION THEN FALSE
    ELSE IF \E n \in DOMAIN group.sub_branches :
               \E q \in DOMAIN protected : group.sub_branches[n] = protected[q]
    THEN FALSE
    ELSE TRUE

Now == 20000 * SEC_IN_DAY

PullRequest(head, number, age, state, body) ==
    [headRefName |-> head, number |-> number, updatedAt |-> Now - age * SEC_IN_DAY,
     state |-> state, body |-> body]

PrInfos ==
    {<<>>,
     <<PullRequest("release/1.0", 1, 3, "OPEN", "")>>,
     <<PullRequest("release/1.0", 2, 3, "CLOSED", "")>>,
     <<PullRequest("release/1.0", 3, 40, "CLOSED", "")>>,
     <<PullRequest("release/1.0", 4, 40, "MERGED", "")>>,
     <<PullRequest("release/1.0", 5, 40, "CLOSED", PR_BODY_MAGIC_STRING)>>,
     <<PullRequest("gh/u/1/head", 6, 40, "MERGED", "")>>,
     <<PullRequest("release/1.0", 3, 40, "CLOSED", ""),
       PullRequest("release/1.0", 1, 3, "OPEN", "")>>}

ProtectionRules ==
    {[hasNextPage |-> FALSE, nodes |-> <<>>],
     [hasNextPage |-> FALSE, nodes |-> <<[hasNextPage |-> FALSE, names |-> <<"main", "release/1.0">>]>>],
     [hasNextPage |-> FALSE,
      nodes |-> <<[hasNextPage |-> FALSE, names |-> <<"main">>], [hasNextPage |-> FALSE, names |-> <<"gh/u/1/base">>]>>],
     [hasNextPage |-> FALSE, nodes |-> <<[hasNextPage |-> TRUE, names |-> <<"main">>]>>]}

InitBranches ==
    /\ heap = <<>>
    /\ bindings = [n \in Vars |-> 0]
    /\ last = NoCall
    /\ classified = <<>>
    /\ sys_modules = <<>>
    /\ \E d1, d2 \in {Now - 10 * SEC_IN_DAY, Now - 600 * SEC_IN_DAY},
          prs \in PrInfos, res \in ProtectionRules :
          inputs = [branches |->
                        <<[branch |-> "release/1.0", date |-> d1,
                           sub_branches |-> <<"release/1.0">>],
                          [branch |-> "gh/u/1", date |-> d2,
                           sub_branches |-> <<"gh/u/1/head", "gh/u/1/base">>]>>,
                    pr_infos |-> prs, res |-> res, now |-> Now]
    /\ pc = "get_protected_branches"
    /\ protected_branches = <<>>
    /\ delete = <<>>
    /\ visited = 0

\* protected_branches = get_protected_branches(), which may raise
GetProtectedBranches ==
    /\ pc = "get_protected_branches"
    /\ pc' = IF get_protected_branches(inputs.res).err # "" THEN "raised" ELSE "loop"
    /\ protected_branches' = get_protected_branches(inputs.res).branches
    /\ UNCHANGED <<heap, bindings, last, classified, sys_modules, inputs, delete, visited>>

\* one iteration of the loop over branches.items()
VisitBranch ==
    /\ pc = "loop" /\ visited < Len(inputs.branches)
    /\ delete' = IF selected(inputs.branches[visited + 1], prs_by_branch(inputs.pr_infos),
                             protected_branches, inputs.now)
                  THEN delete \o inputs.branches[visited + 1].sub_branches
                  ELSE delete
    /\ visited' = visited + 1
    /\ UNCHANGED <<heap, bindings, last, classified, sys_modules, inputs, pc,
                   protected_branches>>

\* print(len(delete))
PrintDeleted ==
    /\ pc = "loop" /\ visited = Len(inputs.branches)
    /\ pc' = "done"
    /\ UNCHANGED <<heap, bindings, last, classified, sys_modules, inputs,
                   protected_branches, delete, visited>>

NextBranches == GetProtectedBranches \/ VisitBranch \/ PrintDeleted

SpecBranches == InitBranches /\ [][NextBranches]_vars

(***************************************************************************)
(* The two hashability predicates, applied to an abstract value and to the *)
(* runtime value it stands for.                                            *)
(***************************************************************************)
Atoms ==
    {c1, cT, ConstantVariable("str", 1, "", {}), tA, tU, EnumVariable(1),
     BuiltinVariable(1), SymNodeVariable(1), lst}

\* the atoms, the empty tuple and the tuples of one atom
Inner == Atoms \cup {TupleVariable(<<>>, {})} \cup {TupleVariable(<<a>>, {}) : a \in Atoms}

AbstractValues ==
    Inner \cup UNION {{TupleVariable(els, {}) : els \in [1..n -> Inner]} : n \in 1..MaxTupleLen}

InitHashable ==
    /\ heap = <<>>
    /\ bindings = [n \in Vars |-> 0]
    /\ last = NoCall
    /\ classified = <<>>
    /\ NoDeletion
    /\ sys_modules = <<>>

Classify ==
    /\ \E x \in AbstractValues :
          classified' = <<[x |-> x, is_hashable |-> is_hashable(x),
                           is_hashable_python_var |-> is_hashable_python_var(python_value(x))]>>
    /\ UNCHANGED <<heap, bindings, last, sys_modules, branchVars>>

NextHashable == Classify

SpecHashable == InitHashable /\ [][NextHashable]_vars

(***************************************************************************)
(* Properties.                                                             *)
(***************************************************************************)
\* The equality a key wrapper is meant to have: same type and same identity
\* (fake tensor) or value (literal), tuples element by element.
KeyEq(a, b) == underlying_value(a) = underlying_value(b)

Contains(m, k) == \E i \in DOMAIN m.items : KeyEq(m.items[i].k, k)

IndexOf(m, k) == CHOOSE i \in DOMAIN m.items : KeyEq(m.items[i].k, k)

\* the same abstract value, whatever guards it has accumulated
SameValue(a, b) == [a EXCEPT !.guards = {}] = [b EXCEPT !.guards = {}]

KeySeq(items) == [i \in DOMAIN items |-> underlying_value(items[i].k)]

DictCall(name) == last.op = name /\ IsDictInstance(last.pre)

\* the pairs reconstruct loads, in the order it loads them
LoadedPairs(self) ==
    LET loads == SelectSeq(reconstruct(self), LAMBDA ins : ins.op = "LOAD")
    IN  [i \in 1..(Len(loads) \div 2) |-> [k |-> loads[2 * i - 1].vt, v |-> loads[2 * i].vt]]

\* C1: after set_item(m, k, v) on a mutable mapping with a key-eligible k, the
\* substituted mapping m' gives get_item(m', k) = v, has the length of m plus
\* one if k was not in m (else the same length), and maps every other key of
\* m to the value it had.
C1_SetItemThenGetItem ==
    (DictCall("__setitem__") /\ last.pre.mutable_local /\ is_hashable(last.args[1]))
    => /\ last.outcome = "ok"
       /\ last.new # 0
       /\ getitem_const(heap[last.new], last.args[1]).outcome = "ok"
       /\ SameValue(getitem_const(heap[last.new], last.args[1]).ret, last.args[2])
       /\ Len(heap[last.new].items)
            = Len(last.pre.items) + (IF Contains(last.pre, last.args[1]) THEN 0 ELSE 1)
       /\ \A i \in DOMAIN last.pre.items :
             ~KeyEq(last.pre.items[i].k, last.args[1])
             => \E j \in DOMAIN heap[last.new].items :
                   heap[last.new].items[j] = last.pre.items[i]

\* C2: insertion order is preserved by set_item: the keys of the substituted
\* mapping are the keys of the old one in their order, with the key appended
\* at the end when it is new, and reconstruct, items and values emit the
\* entries in that order.
C2_InsertionOrderPreserved ==
    (DictCall("__setitem__") /\ last.new # 0)
    => /\ KeySeq(heap[last.new].items)
            = IF Contains(last.pre, last.args[1]) THEN KeySeq(last.pre.items)
              ELSE Append(KeySeq(last.pre.items), underlying_value(last.args[1]))
       /\ KeySeq(LoadedPairs(heap[last.new])) = KeySeq(heap[last.new].items)
       /\ \A i \in DOMAIN heap[last.new].items :
             /\ LoadedPairs(heap[last.new])[i].v = heap[last.new].items[i].v
             /\ SameValue(ConstDict_call_method(heap[last.new], "values", <<>>).ret.els[i],
                          heap[last.new].items[i].v)
             /\ SameValue(ConstDict_call_method(heap[last.new], "items", <<>>).ret.els[i].els[1],
                          heap[last.new].items[i].k)

\* a mapping built from three keys a, b, c whose middle key b was then
\* given another value
C2_Witness ==
    /\ DictCall("__setitem__") /\ last.new # 0
    /\ Len(last.pre.items) = 3
    /\ KeyEq(last.pre.items[2].k, last.args[1])
    /\ last.pre.items[2].v # last.args[2]
    /\ heap[last.new].items[2].v = last.args[2]
    /\ Len(LoadedPairs(heap[last.new])) = 3

\* C3: no mapping operation modifies the instance it is called on: every
\* mapping instance, once made, keeps its keys, values and order whatever is
\* called afterwards.
C3_InstancesNeverModified ==
    [][\A i \in DOMAIN heap : IsDictInstance(heap[i]) => heap'[i] = heap[i]]_vars

\* m0 = {} ; m1 = set_item(m0, k, _) ; m2 = set_item(m1, k2, _): m0 is still
\* empty and m2 has the two keys
C3_Witness ==
    /\ Len(heap) = 4
    /\ IsDictInstance(heap[1]) /\ heap[1].items = <<>>
    /\ Len(heap[3].items) = 1
    /\ Len(heap[4].items) = 2
    /\ heap[4].items[1] = heap[3].items[1]
    /\ DictCall("__setitem__")
    /\ bindings["x"] = 4 /\ bindings["y"] = 4

\* C4: pop(m, k, default) with a key-eligible k that is not in m returns
\* default and substitutes nothing: the bindings and m are as before the
\* call, whether or not m is flagged mutable.
C4_PopDefaultOnMiss ==
    (DictCall("pop") /\ Len(last.args) = 2 /\ is_hashable(last.args[1])
        /\ ~Contains(last.pre, last.args[1]))
    => /\ last.outcome = "ok"
       /\ SameValue(last.ret, last.args[2])
       /\ last.new = 0
       /\ bindings = last.bindings
       /\ heap[last.self] = last.pre

\* C5: pop(key) without a default on a mutable mapping: a key that is present
\* is removed in a substituted mapping that keeps the other items in order,
\* and its value returned; a key that is absent fails with KeyError and
\* nothing is substituted.
C5_PopWithoutDefault ==
    (DictCall("pop") /\ Len(last.args) = 1 /\ last.pre.mutable_local
        /\ is_hashable(last.args[1]))
    => IF Contains(last.pre, last.args[1])
       THEN /\ last.outcome = "ok"
            /\ SameValue(last.ret, last.pre.items[IndexOf(last.pre, last.args[1])].v)
            /\ last.new # 0
            /\ heap[last.new].items
                 = RemoveAt(last.pre.items, IndexOf(last.pre, last.args[1]))
       ELSE /\ last.outcome = "KeyError"
            /\ last.new = 0
            /\ bindings = last.bindings

\* the keys of other, in order, that are not keys of m
NewKeys(m, other) ==
    SelectSeq(KeySeq(other.items),
              LAMBDA u : \A i \in DOMAIN m.items : underlying_value(m.items[i].k) # u)

\* C6: update(other) on a mutable mapping substitutes a mapping whose keys
\* are the keys of self in their order followed by the keys of other that
\* self lacks, in the order of other; a key of other has the value of other,
\* any other key the value of self.
C6_UpdateMerges ==
    (DictCall("update") /\ last.pre.mutable_local)
    => /\ last.outcome = "ok"
       /\ last.new # 0
       /\ KeySeq(heap[last.new].items)
            = KeySeq(last.pre.items) \o NewKeys(last.pre, last.args[1])
       /\ \A j \in DOMAIN heap[last.new].items :
             heap[last.new].items[j].v
               = IF Contains(last.args[1], heap[last.new].items[j].k)
                 THEN last.args[1].items[IndexOf(last.args[1], heap[last.new].items[j].k)].v
                 ELSE last.pre.items[IndexOf(last.pre, heap[last.new].items[j].k)].v

\* C7: DefaultDictVariable get_item(key): a key that is present gives the
\* stored value and substitutes nothing; a key that is absent, with a default
\* factory, invokes the factory once, substitutes a mapping with the key
\* appended with the produced value and returns that value; a key that is
\* absent, without a factory, fails with KeyError and substitutes nothing.
C7_DefaultDictGetItem ==
    (DictCall("__getitem__") /\ last.pre.cls = "DefaultDictVariable"
        /\ is_hashable(last.args[1]))
    => IF Contains(last.pre, last.args[1])
       THEN /\ last.outcome = "ok"
            /\ SameValue(last.ret, last.pre.items[IndexOf(last.pre, last.args[1])].v)
            /\ last.new = 0
            /\ last.calls = 0
       ELSE IF last.pre.default_factory # "None"
       THEN /\ last.outcome = "ok"
            /\ last.calls = 1
            /\ last.new # 0
            /\ heap[last.new].items
                 = Append(last.pre.items, [k |-> last.args[1], v |-> last.ret])
       ELSE /\ last.outcome = "KeyError"
            /\ last.new = 0
            /\ last.calls = 0

\* a call of one of the mutating paths
MutatorCall ==
    \/ last.op \in {"__setitem__", "update", "add"}
    \/ last.op = "pop" /\ last.pre.cls = "SetVariable"
    \/ DictCall("pop") /\ Contains(last.pre, last.args[1])
    \/ /\ DictCall("__getitem__") /\ last.pre.cls = "DefaultDictVariable"
       /\ is_hashable(last.args[1]) /\ ~Contains(last.pre, last.args[1])
       /\ last.pre.default_factory # "None"

\* C8: a mutating call on an instance that is not flagged mutable never
\* substitutes; it fails.
C8_MutatorsRequireMutable ==
    (MutatorCall /\ ~last.pre.mutable_local)
    => /\ last.new = 0
       /\ last.outcome # "ok"
       /\ bindings = last.bindings

SetCall(name) == last.op = name /\ last.pre.cls = "SetVariable"

\* equality of the set-element wrappers of two trackers, either way round
SameElement(a, b) ==
    \/ SetElement_eq(as_set_element(a).e, as_set_element(b).e)
    \/ SetElement_eq(as_set_element(b).e, as_set_element(a).e)

\* C9: no set instance ever holds two elements whose set-element wrappers are
\* equal, after construction and after any adds and pops; adding an element
\* equal to one already there leaves the length as it was.
C9_SetElementsDistinct ==
    /\ \A i \in DOMAIN heap :
          heap[i].cls = "SetVariable"
          => \A a, b \in DOMAIN heap[i].items :
                a # b => ~SameElement(heap[i].items[a], heap[i].items[b])
    /\ (SetCall("add") /\ last.outcome = "ok"
           /\ \E a \in DOMAIN last.pre.items : SameElement(last.pre.items[a], last.args[1]))
       => Len(heap[last.new].items) = Len(last.pre.items)

\* the literal 1 added twice to an empty set: the set has one element
C9_Witness ==
    /\ SetCall("add") /\ last.outcome = "ok"
    /\ heap[1].cls = "SetVariable"
    /\ Len(heap) = 4
    /\ Len(heap[3].items) = 1
    /\ last.pre.items = <<c1>>
    /\ last.args = <<c1>>
    /\ heap[last.new].items = <<c1>>

\* C10: add(item) of an element equal to one in the set whose origin differs
\* appends nothing and attaches an alias guard that is observable on the
\* substituted set (on one of its elements or on the set).
C10_AliasGuardOnSubstitutedSet ==
    (SetCall("add") /\ last.outcome = "ok"
        /\ \E a \in DOMAIN last.pre.items :
              /\ SameElement(last.pre.items[a], last.args[1])
              /\ last.pre.items[a].source # last.args[1].source)
    => /\ Len(heap[last.new].items) = Len(last.pre.items)
       /\ \/ \E j \in DOMAIN heap[last.new].items :
                \E g \in heap[last.new].items[j].guards : g.check = "DUPLICATE_INPUT"
          \/ \E g \in heap[last.new].guards : g.check = "DUPLICATE_INPUT"

\* C11: pop() on a non-empty mutable set returns the element inserted last and
\* substitutes a set whose elements are the previous ones without that last
\* element, in the same order.
C11_SetPopReturnsLast ==
    (SetCall("pop") /\ last.pre.mutable_local /\ Len(last.pre.items) > 0)
    => /\ last.outcome = "ok"
       /\ last.ret = last.pre.items[Len(last.pre.items)]
       /\ last.new # 0
       /\ heap[last.new].cls = "SetVariable"
       /\ heap[last.new].items = SubSeq(last.pre.items, 1, Len(last.pre.items) - 1)
       /\ \A n \in Vars : last.bindings[n] = last.self => bindings[n] = last.new

\* a set of two elements, a third one added, then pop: the added element is
\* returned and the two are left in their order
C11_Witness ==
    /\ SetCall("pop") /\ last.outcome = "ok"
    /\ Len(heap) = 4
    /\ Len(heap[3].items) = 3
    /\ last.self = 3
    /\ last.ret = c1
    /\ heap[4].items = <<tA, c2>>
    /\ bindings["x"] = 4

\* the key a mapping call looks up: its first argument, when key-eligible
KeyCall ==
    /\ IsDictInstance(last.pre)
    /\ last.op \in {"__getitem__", "__setitem__", "pop"}
    /\ is_hashable(last.args[1])

\* C12: the equality of two key wrappers over key-eligible values is defined
\* and true exactly when the underlying values have the same type and are the
\* same placeholder (tensors) or the same value (literals; tuples element by
\* element); equal wrappers have equal hashes; the keys of every mapping are
\* pairwise distinct under this equality.
C12_HashableEquality ==
    /\ KeyCall
       => \A i \in DOMAIN last.pre.items :
             /\ Hashable_eq(last.pre.items[i].k, last.args[1])
                  = (IF KeyEq(last.pre.items[i].k, last.args[1]) THEN "T" ELSE "F")
             /\ KeyEq(last.pre.items[i].k, last.args[1])
                => Hashable_hash(last.pre.items[i].k) = Hashable_hash(last.args[1])
    /\ \A m \in DOMAIN heap :
          IsDictInstance(heap[m])
          => \A a, b \in DOMAIN heap[m].items :
                a # b => ~KeyEq(heap[m].items[a].k, heap[m].items[b].k)

\* C13: the two hashability predicates agree: is_hashable of an abstract value
\* (a literal, a tensor with or without an example value, an enum member, a
\* builtin callable, a symbolic number, a tuple of these, or any other kind)
\* equals is_hashable_python_var of the runtime value it stands for.
C13_HashabilityPredicatesAgree ==
    \A i \in DOMAIN classified :
       classified[i].is_hashable = classified[i].is_hashable_python_var

\* the instructions of code that come before the build-map
BeforeBuildMap(code) ==
    SelectSeq(code, LAMBDA ins : ins.op \in {"LOAD", "BUILD_MAP"})

\* code ends by calling a constructor loaded before everything else
WrappedInConstructor(code) ==
    /\ Len(code) >= 3
    /\ code[1].op = "LOAD_MODULE_collections"
    /\ code[Len(code)].op = "CALL_FUNCTION"

\* C14: reconstruct of a mapping emits the (key, value) pairs in the mapping's
\* order followed by a build-map of the mapping's length, and wraps the result
\* in the container type's constructor exactly when the container type is not
\* the plain dict (for OrderedDict and for defaultdict).
C14_ReconstructWrapsNonPlain ==
    \A m \in DOMAIN heap :
       IsDictInstance(heap[m])
       => /\ LoadedPairs(heap[m]) = heap[m].items
          /\ BeforeBuildMap(reconstruct(heap[m]))
               = load_items(heap[m].items, 1)
                 \o <<Instr("BUILD_MAP", NoneVariable, Len(heap[m].items))>>
          /\ WrappedInConstructor(reconstruct(heap[m])) <=> (heap[m].user_cls # "dict")

\* the items create is to make of the arguments: the fields given a value,
\* in the order of the fields
SuppliedItems(kwargs) ==
    LET some == SelectSeq(fields, LAMBDA f : kwargs[f.name] # RawNone)
    IN  [i \in DOMAIN some |->
            Entry(ConstantVariable("str", some[i].name, "", {}), kwargs[some[i].name])]

\* C15: create with include_none false, from arguments that match the
\* fields, gives a mapping of exactly the fields whose value is not absent,
\* in the order of the fields (none when all are absent, one when one of the
\* four is given; a single field that is no tensor is left aside, spec 4.5
\* rejecting it); var_getattr of a field that is absent from the mapping and
\* has a declared default returns that default.
C15_DataClassCreate ==
    /\ (last.op = "create" /\ last.outcome # "TypeError"
           /\ ~(Len(SuppliedItems(last.args)) = 1
                 /\ SuppliedItems(last.args)[1].v.kind # "tensor"))
       => /\ last.outcome = "ok"
          /\ Len(heap) = 1
          /\ heap[1].items = SuppliedItems(last.args)
    /\ (last.op = "var_getattr"
           /\ \E f \in DOMAIN fields : fields[f].name = last.args[1].v
           /\ \A i \in DOMAIN last.pre.items : last.pre.items[i].k.v # last.args[1].v)
       => /\ last.outcome = "ok"
          /\ SameValue(last.ret, ConstantVariable("NoneType", 0, "", {}))

\* the membership guard of polarity `present` for the name k is among g, and
\* the one of the other polarity is not
MembershipGuard(g, k, present) ==
    /\ DICT_CONTAINS(SysModules.source, k, ~present) \in g
    /\ DICT_CONTAINS(SysModules.source, k, present) \notin g

\* what a query of the registry `modules` for the name k is to answer
RightAnswer(modules, q, k, present) ==
    /\ q.op = "__contains__"
       => /\ q.outcome = "ok"
          /\ q.ret.ty = "bool" /\ q.ret.v = (IF present THEN 1 ELSE 0)
          /\ MembershipGuard(q.ret.guards, k, present)
    /\ q.op = "get"
       => /\ q.outcome = "ok"
          /\ MembershipGuard(q.ret.guards, k, present)
          /\ present => (q.ret.kind = "module"
                          /\ q.ret.v = modules[modules_find(modules, k)].v)
          /\ (~present /\ Len(q.args) = 2) => SameValue(q.ret, q.args[2])
          /\ (~present /\ Len(q.args) = 1) => SameValue(q.ret, NoneVariable)
    /\ q.op = "__getitem__"
       => IF present
          THEN /\ q.outcome = "ok"
               /\ MembershipGuard(q.ret.guards, k, present)
               /\ q.ret.kind = "module"
               /\ q.ret.v = modules[modules_find(modules, k)].v
          ELSE q.outcome = "KeyError"

\* C16: across any interleaving of changes of sys.modules and queries, every
\* __contains__, get and __getitem__ answers from the membership of the key at
\* the time of the call and attaches the guard of that polarity; __getitem__
\* of a missing key fails with KeyError; no query changes sys.modules.
C16_QueriesAnswerFromLiveRegistry ==
    [][last' # last
       => /\ sys_modules' = sys_modules
          /\ (last'.op \in {"__contains__", "get", "__getitem__"}
                 /\ last'.args[1].kind = "const")
             => RightAnswer(sys_modules, last', as_python_constant(last'.args[1]),
                            modules_find(sys_modules, as_python_constant(last'.args[1])) > 0)
      ]_vars

\* "torch" was found missing, with the guard saying so, and was imported
\* after the query; the next query will find it
C16_Witness ==
    /\ last.op = "__contains__" /\ last.outcome = "ok"
    /\ as_python_constant(last.args[1]) = "torch"
    /\ last.ret.v = 0
    /\ DICT_CONTAINS("sys.modules", "torch", TRUE) \in last.ret.guards
    /\ modules_find(sys_modules, "torch") > 0
    /\ Len(sys_modules) = 2

\* C17: a mutating call on a mapping or a set (set_item, pop, update, get_item
\* miss of a DefaultDictVariable, set add, set pop) either succeeds, and then
\* every variable bound to the old instance is bound to the new one (the other
\* variables keep their bindings), or fails, and then the bindings and the
\* instance the call was made on are as they were before the call.
C17_SubstitutionAllOrNothing ==
    (MutatorCall \/ (DictCall("pop") /\ Len(last.args) = 1))
    => IF last.outcome = "ok"
       THEN /\ last.new # 0
            /\ \A n \in Vars :
                  bindings[n] = IF last.bindings[n] = last.self THEN last.new
                                ELSE last.bindings[n]
       ELSE /\ last.new = 0
            /\ bindings = last.bindings
            /\ heap[last.self] = last.pre

\* a set_item that succeeded, with x and y redirected and z left alone, and
\* then a pop of a missing key that failed and left everything as it was
C17_Witness ==
    /\ DictCall("pop") /\ last.outcome = "KeyError"
    /\ last.pre.mutable_local
    /\ Len(heap) = 3
    /\ last.self = 3
    /\ heap[3] = last.pre
    /\ bindings = [n \in Vars |-> IF n = "z" THEN 2 ELSE 3]

\* C18: add(item) on a mutable set does not modify the instance it is called
\* on: the elements of the set instance the call was made on are the same
\* after the call as before, and only the substituted set holds the element
\* added.
C18_SetAddLeavesInstance ==
    (SetCall("add") /\ last.pre.mutable_local /\ last.outcome = "ok")
    => /\ heap[last.self].items = last.pre.items
       /\ last.new # 0
       /\ \E j \in DOMAIN heap[last.new].items :
             SameElement(heap[last.new].items[j], last.args[1])

\* C19: the set substituted by add or by pop on a mutable set is itself
\* mutable, so that in a sequence of add and pop calls that starts from a
\* mutable set every call (add of a supported element, pop of a set that is
\* not empty) succeeds and substitutes.
C19_SetMutabilityPreserved ==
    /\ (last.op \in {"add", "pop"} /\ last.pre.cls = "SetVariable"
           /\ last.pre.mutable_local /\ last.outcome = "ok")
       => (last.new # 0 /\ heap[last.new].mutable_local)
    /\ (last.op \in {"add", "pop"} /\ last.pre.cls = "SetVariable"
           /\ heap[1].mutable_local
           /\ (last.op = "add" => as_set_element(last.args[1]).supported)
           /\ (last.op = "pop" => Len(last.pre.items) > 0))
       => (last.outcome = "ok" /\ last.new # 0)

\* C20: delete_branches never selects a group for deletion when one of its
\* sub-branches is a protected branch, whether or not the group has a pull
\* request, whatever the state and age of that pull request and whatever
\* the date of the last commit.
C20_ProtectedNeverDeleted ==
    \A g \in 1..visited :
       (\E n \in DOMAIN inputs.branches[g].sub_branches :
           \E q \in DOMAIN protected_branches :
              inputs.branches[g].sub_branches[n] = protected_branches[q])
       => \A n \in DOMAIN inputs.branches[g].sub_branches :
             \A d \in DOMAIN delete : delete[d] # inputs.branches[g].sub_branches[n]
====
